---- MODULE Spec2Model ----
(***************************************************************************)
(* Model of the knows CLI core (src/src/processManager.ts): discovery of   *)
(* listening processes from lsof / netstat text, enrichment, the sorted    *)
(* listing with its port filters, and termination by port or by pid.       *)
(*                                                                         *)
(* Text is modelled as TLA+ strings, characters as strings of length one.  *)
(* A tool's output is the sequence of its lines (output.split(/\r?\n/)).   *)
(***************************************************************************)
EXTENDS Integers, Sequences, FiniteSets, Bags, TLC

(***************************************************************************)
(* Characters and the JavaScript string primitives the parsers use.        *)
(***************************************************************************)
Char(s, i) == SubSeq(s, i, i)

CharsOf(s) == { Char(s, i) : i \in 1..Len(s) }

Lower == "abcdefghijklmnopqrstuvwxyz"

Upper == "ABCDEFGHIJKLMNOPQRSTUVWXYZ"

Digits == "0123456789"

DigitChars == CharsOf(Digits)

LowerChars == CharsOf(Lower)

\* \w of a JavaScript regular expression
WordChars == LowerChars \cup CharsOf(Upper) \cup DigitChars \cup {"_"}

\* \s, restricted to the blanks that occur inside one line
SpaceChars == {" ", "\t"}

IsDigit(c) == c \in DigitChars

IsWordChar(c) == c \in WordChars

IsSpace(c) == c \in SpaceChars

DigitVal(c) == CHOOSE d \in 0..9 : Char(Digits, d + 1) = c

UpperChar(c) ==
    IF c \in LowerChars
    THEN Char(Upper, CHOOSE k \in 1..26 : Char(Lower, k) = c)
    ELSE c

RECURSIVE ToUpperCase(_)
ToUpperCase(s) ==
    IF s = "" THEN "" ELSE UpperChar(Char(s, 1)) \o ToUpperCase(SubSeq(s, 2, Len(s)))

StartsWith(s, p) == Len(s) >= Len(p) /\ SubSeq(s, 1, Len(p)) = p

EndsWith(s, p) == Len(s) >= Len(p) /\ SubSeq(s, Len(s) - Len(p) + 1, Len(s)) = p

RECURSIVE TrimStart(_)
TrimStart(s) ==
    IF Len(s) > 0 /\ IsSpace(Char(s, 1)) THEN TrimStart(SubSeq(s, 2, Len(s))) ELSE s

RECURSIVE TrimEnd(_)
TrimEnd(s) ==
    IF Len(s) > 0 /\ IsSpace(Char(s, Len(s))) THEN TrimEnd(SubSeq(s, 1, Len(s) - 1)) ELSE s

\* String.prototype.trim
Trim(s) == TrimEnd(TrimStart(s))

\* the indices at which a run of white space begins, and those at which one ends
SeparatorStarts(s) ==
    { i \in 1..Len(s) : IsSpace(Char(s, i)) /\ (i = 1 \/ ~IsSpace(Char(s, i - 1))) }

SeparatorEnds(s) ==
    { i \in 1..Len(s) : IsSpace(Char(s, i)) /\ (i = Len(s) \/ ~IsSpace(Char(s, i + 1))) }

\* the k-th smallest number of the set
Nth(S, k) == CHOOSE x \in S : Cardinality({ y \in S : y <= x }) = k

\* s.split(/\s+/): the pieces between the runs of white space, the empty
\* piece before a leading run and after a trailing run included
SplitWs(s) ==
    LET starts == SeparatorStarts(s)
        ends == SeparatorEnds(s)
        n == Cardinality(starts)
    IN  [ k \in 1..(n + 1) |->
            SubSeq(s, IF k = 1 THEN 1 ELSE Nth(ends, k - 1) + 1,
                      IF k = n + 1 THEN Len(s) ELSE Nth(starts, k) - 1) ]

\* parts[k] of a JavaScript array: undefined past the end; parseInt turns
\* undefined into the string "undefined"
Part(parts, k) == IF k <= Len(parts) THEN parts[k] ELSE "undefined"

RECURSIVE DigitRunEnd(_, _)
\* the last index of the run of digits that starts at i (i - 1 when there is none)
DigitRunEnd(s, i) ==
    IF i <= Len(s) /\ IsDigit(Char(s, i)) THEN DigitRunEnd(s, i + 1) ELSE i - 1

RECURSIVE DecVal(_)
DecVal(d) ==
    IF d = "" THEN 0
    ELSE DecVal(SubSeq(d, 1, Len(d) - 1)) * 10 + DigitVal(Char(d, Len(d)))

\* Number.parseInt(s, 10): blanks, an optional sign, then the longest run of
\* digits; whatever follows the digits is ignored. No digit: NaN.
ParseIntDigitsFrom(s) ==
    LET t == TrimStart(s)
    IN  IF Len(t) > 0 /\ Char(t, 1) \in {"+", "-"} THEN 2 ELSE 1

ParseIntIsNaN(s) ==
    LET t == TrimStart(s)
        i == ParseIntDigitsFrom(s)
    IN  DigitRunEnd(t, i) < i

ParseIntVal(s) ==
    LET t == TrimStart(s)
        i == ParseIntDigitsFrom(s)
        v == DecVal(SubSeq(t, i, DigitRunEnd(t, i)))
    IN  IF Len(t) > 0 /\ Char(t, 1) = "-" THEN 0 - v ELSE v

(***************************************************************************)
(* PortProcess records. command is optional: <<>> is undefined, <<c>> is   *)
(* the string c.                                                           *)
(***************************************************************************)
NoCommand == <<>>

PortProcess(pid, port, protocol, address, command) ==
    [pid |-> pid, port |-> port, protocol |-> protocol,
     address |-> address, command |-> command]

\* address.startsWith('[') && address.endsWith(']') ? address.slice(1, -1)
StripBrackets(address) ==
    IF StartsWith(address, "[") /\ EndsWith(address, "]")
    THEN SubSeq(address, 2, Len(address) - 1)
    ELSE address

RECURSIVE LastColon(_, _)
LastColon(s, i) ==
    IF i < 1 THEN 0 ELSE IF Char(s, i) = ":" THEN i ELSE LastColon(s, i - 1)

\* token.match(/^(.*):(\d+)$/): the digits run to the end of the token, so the
\* colon is the last colon of the token. <<>> is null.
ParseAddress(token) ==
    LET j == LastColon(token, Len(token))
    IN  IF j = 0 \/ j = Len(token) \/ DigitRunEnd(token, j + 1) # Len(token)
        THEN <<>>
        ELSE << [address |-> StripBrackets(SubSeq(token, 1, j - 1)),
                 port |-> ParseIntVal(SubSeq(token, j + 1, Len(token)))] >>

(***************************************************************************)
(* getUnixProcesses: the loop body, one line of lsof output.               *)
(***************************************************************************)
IsProtoAt(s, i) ==
    /\ i + 2 <= Len(s)
    /\ ToUpperCase(SubSeq(s, i, i + 2)) \in {"TCP", "UDP"}
    /\ (i = 1 \/ ~IsWordChar(Char(s, i - 1)))
    /\ (i + 2 = Len(s) \/ ~IsWordChar(Char(s, i + 3)))

\* the smallest number of a non-empty set
Least(S) == CHOOSE x \in S : \A y \in S : x <= y

\* line.match(/\b(TCP|UDP)\b/i): index of the leftmost match from i on, 0
\* when none
ProtocolSearch(s, i) ==
    LET found == { j \in i..(Len(s) - 2) : IsProtoAt(s, j) }
    IN  IF found = {} THEN 0 ELSE Least(found)

UnixProtocol(line) ==
    LET i == ProtocolSearch(line, 1)
    IN  IF i = 0 THEN "TCP" ELSE ToUpperCase(SubSeq(line, i, i + 2))

\* the class [\w.*:[\]]
IsAddrChar(c) == IsWordChar(c) \/ c \in {".", "*", ":", "[", "]"}

RECURSIVE AddrRunEnd(_, _)
AddrRunEnd(s, i) ==
    IF i <= Len(s) /\ IsAddrChar(Char(s, i)) THEN AddrRunEnd(s, i + 1) ELSE i - 1

RECURSIVE ColonBack(_, _, _)
\* greedy [\w.*:[\]]+ backs off from the end of the run to the last colon that a
\* digit follows; the group needs at least one character, so j > i
ColonBack(s, i, j) ==
    IF j <= i THEN 0
    ELSE IF Char(s, j) = ":" /\ j < Len(s) /\ IsDigit(Char(s, j + 1)) THEN j
         ELSE ColonBack(s, i, j - 1)

\* line.match(/([\w.*:[\]]+):(\d+)/): <<start, colon>> of the leftmost match
\* from i on, <<>> when there is none
AddressSearch(s, i) ==
    LET found == { k \in i..Len(s) : ColonBack(s, k, AddrRunEnd(s, k)) > 0 }
    IN  IF found = {} THEN <<>>
        ELSE << Least(found), ColonBack(s, Least(found), AddrRunEnd(s, Least(found))) >>

\* one iteration of the loop over the lines: <<>> for continue, <<record>> for push
UnixLineRecord(line) ==
    LET parts == SplitWs(Trim(line))
        m == AddressSearch(line, 1)
    IN  IF Trim(line) = "" THEN <<>>
        ELSE IF ParseIntIsNaN(Part(parts, 2)) THEN <<>>
        ELSE IF m = <<>> THEN <<>>
        ELSE << PortProcess(
                  ParseIntVal(Part(parts, 2)),
                  ParseIntVal(SubSeq(line, m[2] + 1, DigitRunEnd(line, m[2] + 1))),
                  UnixProtocol(line),
                  StripBrackets(SubSeq(line, m[1], m[2] - 1)),
                  <<parts[1]>>) >>

RECURSIVE UnixRecords(_)
UnixRecords(lines) ==
    IF lines = <<>> THEN <<>>
    ELSE UnixLineRecord(Head(lines)) \o UnixRecords(Tail(lines))

\* output.split(/\r?\n/).slice(1), then the loop
GetUnixProcesses(lines) == UnixRecords(Tail(lines))

(***************************************************************************)
(* getWindowsProcesses: the loop body, one line of netstat -ano output.    *)
(***************************************************************************)
\* the state column is not looked at
TcpStateAccepted_Any(state) == TRUE

\* state !== 'LISTENING' drops the line
TcpStateAccepted(state) == state = "LISTENING"

\* the index in parts of the pid column
WindowsPidColumn(protocol) == IF protocol = "TCP" THEN 5 ELSE 4

WindowsLineRecord(rawLine) ==
    LET line == Trim(rawLine)
        parts == SplitWs(line)
        protocol == ToUpperCase(parts[1])
        pidText == parts[WindowsPidColumn(protocol)]
        addressInfo == ParseAddress(parts[2])
    IN  IF line = "" \/ StartsWith(line, "Proto") \/ StartsWith(line, "Active")
        THEN <<>>
        ELSE IF Len(parts) < 4 THEN <<>>
        ELSE IF protocol \notin {"TCP", "UDP"} THEN <<>>
        ELSE IF protocol = "TCP" /\ Len(parts) < 5 THEN <<>>
        ELSE IF protocol = "TCP" /\ ~TcpStateAccepted(parts[4]) THEN <<>>
        ELSE IF ParseIntIsNaN(pidText) THEN <<>>
        ELSE IF addressInfo = <<>> THEN <<>>
        ELSE << PortProcess(ParseIntVal(pidText), addressInfo[1].port, protocol,
                            addressInfo[1].address, NoCommand) >>

RECURSIVE GetWindowsProcesses(_)
GetWindowsProcesses(lines) ==
    IF lines = <<>> THEN <<>>
    ELSE WindowsLineRecord(Head(lines)) \o GetWindowsProcesses(Tail(lines))

(***************************************************************************)
(* enrichProcesses, the sort of listListeningProcesses and the filters.    *)
(***************************************************************************)
\* the distinct pids of the records
PidsOf(recs) == { recs[k].pid : k \in 1..Len(recs) }

\* base.map((item) => item.pid)
MapPids(recs) == [k \in 1..Len(recs) |-> recs[k].pid]

RECURSIVE SpreadSet(_)
\* [...new Set(values)]: a Set keeps each value once, in insertion order
SpreadSet(values) ==
    IF values = <<>> THEN <<>>
    ELSE LET init == SpreadSet(SubSeq(values, 1, Len(values) - 1))
             last == values[Len(values)]
         IN  IF \E k \in 1..Len(init) : init[k] = last THEN init ELSE Append(init, last)

\* the array without the Set: one element per record
Pids_NoSet(recs) == MapPids(recs)

\* const pids: the array pids.map starts one lookup for each element of
Pids(recs) == SpreadSet(MapPids(recs))

\* pidDetails after one lookup settles: the try block sets the command when a
\* match was found, and the finally block then sets '' whatever happened
DetailsAfterLookup(details, pid, outcome, cmd) ==
    LET tried == IF outcome = "found" THEN (pid :> cmd) @@ details ELSE details
    IN  (pid :> "") @@ tried

\* if (item.command): defined and not the empty string
Truthy(command) == command # NoCommand /\ command # <<"">>

\* pidDetails.get(pid): undefined when the map has no entry
MapGet(details, pid) == IF pid \in DOMAIN details THEN <<details[pid]>> ELSE NoCommand

EnrichRecord(item, details) ==
    IF Truthy(item.command) THEN item
    ELSE [item EXCEPT !.command = MapGet(details, item.pid)]

EnrichAll(recs, details) == [k \in 1..Len(recs) |-> EnrichRecord(recs[k], details)]

\* the comparator without its equal-port branch
Compare_PortOnly(a, b) == a.port - b.port

\* the comparator of the sort
Compare(a, b) == IF a.port = b.port THEN a.pid - b.pid ELSE a.port - b.port

RECURSIVE InsertBy(_, _)
InsertBy(x, s) ==
    IF s = <<>> THEN <<x>>
    ELSE IF Compare(Head(s), x) > 0 THEN <<x>> \o s
         ELSE <<Head(s)>> \o InsertBy(x, Tail(s))

RECURSIVE SortProcesses(_)
\* Array.prototype.sort with the comparator: a stable sort
SortProcesses(s) ==
    IF s = <<>> THEN <<>>
    ELSE InsertBy(s[Len(s)], SortProcesses(SubSeq(s, 1, Len(s) - 1)))

\* >= in place of ===
PortMatches_AtLeast(item, port) == item.port >= port

PortMatches(item, port) == item.port = port

FilterByPort(procs, port) == SelectSeq(procs, LAMBDA item : PortMatches(item, port))

\* >= in place of >
RangeIsEmpty_OrEqual(minPort, maxPort) == minPort >= maxPort

\* if (minPort > maxPort) return []
RangeIsEmpty(minPort, maxPort) == minPort > maxPort

InPortRange(item, minPort, maxPort) == item.port >= minPort /\ item.port <= maxPort

FilterByPortRange(procs, minPort, maxPort) ==
    SelectSeq(procs, LAMBDA item : InPortRange(item, minPort, maxPort))

(***************************************************************************)
(* terminateProcess. NoError is a normal return; anything else is the      *)
(* error the call throws. res is what the operating system answered:       *)
(* process.kill returned ("ok") or threw ESRCH / EPERM; taskkill exited 0  *)
(* ("ok") or non-zero.                                                     *)
(***************************************************************************)
NoError == "none"

OsKillResults(plat) ==
    IF plat = "win32" THEN {"ok", "taskkill_failed"} ELSE {"ok", "ESRCH", "EPERM"}

\* without the ESRCH branch of the catch block
TerminateProcess_NoEsrch(plat, res) == IF res = "ok" THEN NoError ELSE res

TerminateProcess(plat, res) ==
    IF plat = "win32"
    THEN (IF res = "ok" THEN NoError ELSE res)
    ELSE IF res = "ok" THEN NoError
         ELSE IF res = "ESRCH" THEN NoError
         ELSE res

\* success.push placed before the await
SuccessAfter_Eager(succ, i, err) == Append(succ, i)

\* success.push(processInfo) after the await returned normally
SuccessAfter(succ, i, err) == IF err = NoError THEN Append(succ, i) ELSE succ

\* failed.push({ process: processInfo, error }) in the catch block
FailedAfter(fail, i, err) ==
    IF err = NoError THEN fail ELSE Append(fail, [idx |-> i, error |-> err])

\* without the try / catch around the attempt
AttemptErrorEscapes_NoCatch(err) == err # NoError

\* what an error of one attempt does to the killByPort call: the catch block
\* swallows it, so the call goes on
AttemptErrorEscapes(err) == FALSE

(***************************************************************************)
(* The tools' output. A discovery snapshot is the text the listing tool    *)
(* prints: the header, then at most MaxLines listener lines, then the      *)
(* empty piece that follows the last newline.                              *)
(***************************************************************************)
MaxLines == 3

MaxParseLines == 2

Platforms == {"win32", "linux"}

UnixHeader == "COMMAND PID USER FD TYPE DEVICE SIZE/OFF NODE NAME"

WindowsBanner ==
    << "", "Active Connections", "",
       "  Proto  Local Address          Foreign Address        State           PID" >>

\* listener lines: two ports, one of them shared by two pids that the tool
\* prints in descending pid order, and a line whose numbers are out of range
UnixLines ==
    { "node 4821 dev 23u IPv4 0x1a 0t0 TCP *:3000 (LISTEN)",
      "nginx 812 root 6u IPv6 0x2b 0t0 TCP [::1]:80 (LISTEN)",
      "nginx 811 root 6u IPv4 0x2c 0t0 TCP 127.0.0.1:80 (LISTEN)",
      "idle 0 root 3u IPv4 0x1 0t0 TCP *:70000 (LISTEN)" }

WindowsLines ==
    { "  TCP    0.0.0.0:3000           0.0.0.0:0              LISTENING       9912",
      "  TCP    [::]:80                [::]:0                 LISTENING       812",
      "  UDP    0.0.0.0:80             *:*                                    811",
      "  TCP    0.0.0.0:0              0.0.0.0:0              LISTENING       0" }

\* the sequences of at most n elements of S
SeqsUpTo(S, n) == UNION { [1..k -> S] : k \in 0..n }

RawOutputs(plat, lines, n) ==
    IF plat = "win32"
    THEN { WindowsBanner \o body \o <<"">> : body \in SeqsUpTo(lines, n) }
    ELSE { <<"">> } \cup
         { <<UnixHeader>> \o body \o <<"">> : body \in SeqsUpTo(lines, n) \ {<<>>} }

\* runCommand awaits the promisified exec: it resolves with the tool's output,
\* or rejects with an error that carries the output captured so far as its
\* stdout property, or rejects with an error that has no stdout property
ToolOutcomes == {"resolved", "rejected_stdout", "rejected_bare"}

\* the lines of an empty output: ''.split(/\r?\n/)
NoOutput == << "" >>

\* what the tool can have printed when exec settles that way
ToolOutputs(outcome, plat, lines, n) ==
    IF outcome = "resolved" THEN RawOutputs(plat, lines, n)
    ELSE IF outcome = "rejected_stdout" THEN RawOutputs(plat, lines, n) \cup {NoOutput}
    ELSE {NoOutput}

\* getUnixProcesses catches the rejection and goes on with String(error.stdout
\* ?? '') when the error has a stdout property; getWindowsProcesses catches
\* nothing
DiscoveryThrows(plat, outcome) ==
    IF plat = "win32" THEN outcome # "resolved" ELSE outcome = "rejected_bare"

(***************************************************************************)
(* The calls of the module's exported functions.                           *)
(***************************************************************************)
CallPorts == {80, 3000}

CallPids == {4821}

MakeCall(op, a, b) == [op |-> op, a |-> a, b |-> b]

NoCall == MakeCall("none", 0, 0)

ListAllCall == MakeCall("listListeningProcesses", 0, 0)

Calls ==
    {ListAllCall}
    \cup { MakeCall("filterByPort", p, 0) : p \in CallPorts }
    \cup { MakeCall("filterByPortRange", lo, hi) : lo \in CallPorts, hi \in CallPorts }
    \cup { MakeCall("killByPort", p, 0) : p \in CallPorts }
    \cup { MakeCall("killByPid", q, 0) : q \in CallPids }

\* what findProcess('pid', pid) can do, and the command it reports
LookupOutcomes == {"found", "none", "throw"}

LookupCmd == "node server.js"

EmptyMap == [k \in {} |-> ""]

VARIABLES
    platform,     \* process.platform
    raw,          \* the lines the listing tool prints
    tool,         \* how the promisified exec of runCommand settles
    call,         \* the exported function being executed and its arguments
    pc,           \* where the call is: idle, discover, enrich, terminate, killpid, done, threw
    base,         \* the records the platform parser returned
    lookupsLeft,  \* the indices of pids whose findProcess lookup has not settled
    pidDetails,   \* the Map pid -> command of enrichProcesses
    lookupResults, \* enrichProcesses: pid -> how its findProcess lookup settled
    processes,    \* what listListeningProcesses returned to its caller
    result,       \* what the list / filter call returned
    matches,      \* killByPort: the records filterByPort(port) returned
    attemptsLeft, \* killByPort: indices of matches whose attempt has not settled
    osResults,    \* index -> what the operating system answered to the attempt
    success,      \* killByPort: indices of matches, in push order
    failed,       \* killByPort: [idx, error], in push order
    thrown,       \* the error the call threw, NoError when none
    callNo,       \* 1 in the caller's first call, 2 when it repeats the call
    started,      \* watch: the action has attached the input listener and called schedule
    stopped,      \* watch: let stopped
    pending,      \* watch: let pending
    timer,        \* watch: let timer: "null", or a handle whose timeout is "armed" or has "fired"
    timeouts,     \* watch: the number of timeouts set by setTimeout and still to expire
    rawMode,      \* watch: stdin is in raw mode with onData listening
    input,        \* watch: the last chunk stdin delivered to onData, <<>> before any
    inFlight,     \* watch: the number of renderOnce executions that have not ended
    seenKeys,     \* watch: the Set seenKeys
    shown,        \* watch: the entries the last successful render printed, [key, isNew]
    lastRender,   \* watch: "none", or how the last renderOnce ended: "ok", "failed"
    cpc,          \* kill command: init, read, prompt, resolve, killing, end
    force,        \* kill command: options.force
    previewed,    \* kill command: the records printed before the prompt
    answer,       \* kill command: "none", or how the prompt settled: "yes", "no", "rejected"
    killInvoked,  \* kill command: killByPort(port) has been called
    exitCode      \* kill command: process.exitCode

vars ==
    << platform, raw, tool, call, pc, base, lookupsLeft, pidDetails, lookupResults, processes,
       result,
       matches, attemptsLeft, osResults, success, failed, thrown, callNo,
       started, stopped, pending, timer, timeouts, rawMode, input, inFlight, seenKeys,
       shown, lastRender, cpc, force, previewed, answer, killInvoked, exitCode >>

listVars == << base, lookupsLeft, pidDetails, lookupResults, processes, result >>

killVars == << matches, attemptsLeft, osResults, success, failed >>

\* the state of the callers of the module
watchVars ==
    << started, stopped, pending, timer, timeouts, rawMode, input, inFlight, seenKeys,
       shown, lastRender >>

cmdVars == << cpc, force, previewed, answer, killInvoked, exitCode >>

outerVars == << callNo, watchVars, cmdVars >>

InitCall ==
    /\ call = NoCall
    /\ pc = "idle"
    /\ base = <<>>
    /\ lookupsLeft = {}
    /\ pidDetails = EmptyMap
    /\ lookupResults = EmptyMap
    /\ processes = <<>>
    /\ result = <<>>
    /\ matches = <<>>
    /\ attemptsLeft = {}
    /\ osResults = EmptyMap
    /\ success = <<>>
    /\ failed = <<>>
    /\ thrown = NoError
    /\ callNo = 1
    /\ started = FALSE
    /\ stopped = FALSE
    /\ pending = FALSE
    /\ timer = "null"
    /\ timeouts = 0
    /\ rawMode = FALSE
    /\ input = <<>>
    /\ inFlight = 0
    /\ seenKeys = {}
    /\ shown = <<>>
    /\ lastRender = "none"
    /\ cpc = "init"
    /\ force = FALSE
    /\ previewed = <<>>
    /\ answer = "none"
    /\ killInvoked = FALSE
    /\ exitCode = 0

Init ==
    /\ platform \in Platforms
    /\ tool \in ToolOutcomes
    /\ raw \in ToolOutputs(tool, platform,
                           IF platform = "win32" THEN WindowsLines ELSE UnixLines, MaxLines)
    /\ InitCall

\* A caller invokes an exported function. filterByPortRange returns [] at once
\* when minPort > maxPort; killByPid goes straight to terminateProcess; every
\* other call starts with the discovery of listListeningProcesses.
Invoke(c) ==
    /\ pc = "idle"
    /\ call' = c
    /\ pc' = IF c.op = "filterByPortRange" /\ RangeIsEmpty(c.a, c.b) THEN "done"
             ELSE IF c.op = "killByPid" THEN "killpid"
             ELSE "discover"
    /\ result' = <<>>
    /\ UNCHANGED << platform, raw, tool, base, lookupsLeft, pidDetails, lookupResults, processes,
                    killVars, thrown >>
    /\ UNCHANGED outerVars

\* getWindowsProcesses / getUnixProcesses throw the error of runCommand, or
\* return, and enrichProcesses starts one lookup per distinct pid
Discover ==
    /\ pc = "discover"
    /\ IF DiscoveryThrows(platform, tool)
       THEN /\ pc' = "threw"
            /\ thrown' = "command_failed"
            /\ UNCHANGED << base, lookupsLeft >>
       ELSE /\ base' = IF platform = "win32" THEN GetWindowsProcesses(raw)
                       ELSE GetUnixProcesses(raw)
            /\ lookupsLeft' = 1..Len(Pids(base'))
            /\ pc' = "enrich"
            /\ thrown' = thrown
    /\ pidDetails' = EmptyMap
    /\ lookupResults' = EmptyMap
    /\ UNCHANGED << platform, raw, tool, call, processes, result, killVars >>
    /\ UNCHANGED outerVars

\* One findProcess lookup settles (in any order): the one pids.map started for
\* pids[i]. A lookup that throws rejects the Promise.all after its finally
\* block ran, and with it the whole call.
LookupDone(i, outcome) ==
    /\ pc = "enrich"
    /\ i \in lookupsLeft
    /\ lookupsLeft' = lookupsLeft \ {i}
    /\ LET pid == Pids(base)[i]
       IN  /\ pidDetails' = DetailsAfterLookup(pidDetails, pid, outcome, LookupCmd)
           /\ lookupResults' = (pid :> outcome) @@ lookupResults
    /\ pc' = IF outcome = "throw" THEN "threw" ELSE pc
    /\ thrown' = IF outcome = "throw" THEN "lookup_failed" ELSE thrown
    /\ UNCHANGED << platform, raw, tool, call, base, processes, result, killVars >>
    /\ UNCHANGED outerVars

\* the value listListeningProcesses returns once every lookup has settled; when
\* it returns, the lookups of enrichProcesses are over
Listing == SortProcesses(EnrichAll(base, pidDetails))

EnrichSettled == pc = "enrich" /\ lookupsLeft = {}

ListAllReturn ==
    /\ EnrichSettled
    /\ call.op = "listListeningProcesses"
    /\ processes' = Listing
    /\ result' = processes'
    /\ pc' = "done"
    /\ lookupResults' = EmptyMap
    /\ UNCHANGED << platform, raw, tool, call, base, lookupsLeft, pidDetails, killVars, thrown >>
    /\ UNCHANGED outerVars

FilterByPortReturn ==
    /\ EnrichSettled
    /\ call.op = "filterByPort"
    /\ processes' = Listing
    /\ result' = FilterByPort(processes', call.a)
    /\ pc' = "done"
    /\ lookupResults' = EmptyMap
    /\ UNCHANGED << platform, raw, tool, call, base, lookupsLeft, pidDetails, killVars, thrown >>
    /\ UNCHANGED outerVars

FilterByPortRangeReturn ==
    /\ EnrichSettled
    /\ call.op = "filterByPortRange"
    /\ processes' = Listing
    /\ result' = FilterByPortRange(processes', call.a, call.b)
    /\ pc' = "done"
    /\ lookupResults' = EmptyMap
    /\ UNCHANGED << platform, raw, tool, call, base, lookupsLeft, pidDetails, killVars, thrown >>
    /\ UNCHANGED outerVars

\* killByPort: filterByPort(port) returned, the lookups of its enrichment are
\* over, and matches.map starts one attempt per matched record
KillByPortMatch ==
    /\ EnrichSettled
    /\ call.op = "killByPort"
    /\ processes' = Listing
    /\ matches' = FilterByPort(processes', call.a)
    /\ attemptsLeft' = 1..Len(matches')
    /\ osResults' = EmptyMap
    /\ success' = <<>>
    /\ failed' = <<>>
    /\ pc' = "terminate"
    /\ lookupResults' = EmptyMap
    /\ UNCHANGED << platform, raw, tool, call, base, lookupsLeft, pidDetails, result, thrown >>
    /\ UNCHANGED outerVars

\* The order in which attempts may settle. process.kill is synchronous, so off
\* Windows the attempts settle in the order of matches; taskkill children
\* finish in any order.
MaySettle(i) ==
    platform = "win32" \/ \A k \in attemptsLeft : i <= k

\* one termination attempt of killByPort settles
AttemptDone(i, res) ==
    /\ pc = "terminate"
    /\ i \in attemptsLeft
    /\ MaySettle(i)
    /\ res \in OsKillResults(platform)
    /\ LET err == TerminateProcess(platform, res)
       IN  /\ osResults' = (i :> res) @@ osResults
           /\ success' = SuccessAfter(success, i, err)
           /\ failed' = FailedAfter(failed, i, err)
           /\ pc' = IF AttemptErrorEscapes(err) THEN "threw" ELSE pc
           /\ thrown' = IF AttemptErrorEscapes(err) THEN err ELSE thrown
    /\ attemptsLeft' = attemptsLeft \ {i}
    /\ UNCHANGED << platform, raw, tool, call, listVars, matches >>
    /\ UNCHANGED outerVars

\* Promise.all resolved: return { success, failed }
KillByPortReturn ==
    /\ pc = "terminate"
    /\ attemptsLeft = {}
    /\ pc' = "done"
    /\ UNCHANGED << platform, raw, tool, call, listVars, killVars, thrown >>
    /\ UNCHANGED outerVars

\* killByPid: await terminateProcess(pid)
KillByPidDone(res) ==
    /\ pc = "killpid"
    /\ res \in OsKillResults(platform)
    /\ osResults' = (1 :> res)
    /\ LET err == TerminateProcess(platform, res)
       IN  /\ pc' = IF err = NoError THEN "done" ELSE "threw"
           /\ thrown' = err
    /\ UNCHANGED << platform, raw, tool, call, listVars, matches, attemptsLeft, success, failed >>
    /\ UNCHANGED outerVars

Next ==
    \/ \E c \in Calls : Invoke(c)
    \/ Discover
    \/ \E i \in lookupsLeft, outcome \in LookupOutcomes : LookupDone(i, outcome)
    \/ ListAllReturn
    \/ FilterByPortReturn
    \/ FilterByPortRangeReturn
    \/ KillByPortMatch
    \/ \E i \in attemptsLeft, res \in {"ok", "ESRCH", "EPERM", "taskkill_failed"} :
          AttemptDone(i, res)
    \/ KillByPortReturn
    \/ \E res \in {"ok", "ESRCH", "EPERM", "taskkill_failed"} : KillByPidDone(res)

Spec == Init /\ [][Next]_vars

(***************************************************************************)
(* The parsers alone, on a wider set of lines: what the tools print for    *)
(* listeners, for other sockets, their headers and blanks, and lines that  *)
(* are cut short or carry text where a number belongs.                     *)
(***************************************************************************)
ParseUnixLines ==
    { "node 4821 dev 23u IPv4 0x1a 0t0 TCP *:3000 (LISTEN)",
      "nginx 812 root 6u IPv6 0x2b 0t0 TCP [::1]:80 (LISTEN)",
      "sshd 77 root 3u IPv4 0x3c 0t0 TCP 127.0.0.1:22 (LISTEN)",
      "dnsd 53 root 5u IPv4 0x4d 0t0 udp *:53",
      "app 900 dev 7u IPv4 0x5e 0t0 *:8080 (LISTEN)",
      UnixHeader,
      "",
      "   ",
      "node",
      "node abc dev 23u IPv4 0x1a 0t0 TCP *:3000 (LISTEN)",
      "node 4821 dev 23u IPv4 0x1a 0t0 TCP *:* (LISTEN)",
      "node 4821 dev 23u IPv4 0x1a 0t0 TCP localhost (LISTEN)",
      "node 12ab dev 23u IPv4 0x1a 0t0 TCP *:3000 (LISTEN)",
      "idle 0 root 3u IPv4 0x1 0t0 TCP *:0 (LISTEN)" }

ParseWindowsLines ==
    { "  TCP    0.0.0.0:8080           0.0.0.0:0              LISTENING       9912",
      "  TCP    0.0.0.0:8080           0.0.0.0:0              ESTABLISHED     9912",
      "  TCP    [::]:135               [::]:0                 LISTENING       1044",
      "  TCP    10.0.0.5:49720         52.1.2.3:443           TIME_WAIT       0",
      "  UDP    0.0.0.0:5353           *:*                                    2240",
      "  UDP    [::1]:1900             *:*                                    5252",
      "Active Connections",
      "",
      "  TCP    0.0.0.0:445            0.0.0.0:0              LISTENING",
      "  UDP    0.0.0.0:500            *:*",
      "  TCP    0.0.0.0:http           0.0.0.0:0              LISTENING       4",
      "  TCP    0.0.0.0:80             0.0.0.0:0              LISTENING       abc",
      "  ICMP   0.0.0.0:7              *:*                                    9",
      "  TCP    0.0.0.0:0              0.0.0.0:0              LISTENING       0" }

InitParse ==
    /\ platform \in Platforms
    /\ tool \in ToolOutcomes
    /\ raw \in ToolOutputs(tool, platform,
                           IF platform = "win32" THEN ParseWindowsLines ELSE ParseUnixLines,
                           MaxParseLines)
    /\ InitCall

NextParse ==
    \/ Invoke(ListAllCall)
    \/ Discover

ParseSpec == InitParse /\ [][NextParse]_vars

(***************************************************************************)
(* killByPort called twice in succession for the same port. Between the    *)
(* two calls the listeners change: signalled processes exit or stay,       *)
(* others come and go, so the second discovery reads another output.       *)
(***************************************************************************)
MaxRepeatLines == 2

KillByPortCalls == { MakeCall("killByPort", p, 0) : p \in CallPorts }

InitRepeat ==
    /\ platform \in Platforms
    /\ tool \in ToolOutcomes
    /\ raw \in ToolOutputs(tool, platform,
                           IF platform = "win32" THEN WindowsLines ELSE UnixLines,
                           MaxRepeatLines)
    /\ InitCall

\* the first call has returned and the caller calls killByPort(port) again:
\* every local of the first call is gone
CallAgain ==
    /\ pc = "done"
    /\ call.op = "killByPort"
    /\ callNo = 1
    /\ callNo' = 2
    /\ tool' \in ToolOutcomes
    /\ raw' \in ToolOutputs(tool', platform,
                            IF platform = "win32" THEN WindowsLines ELSE UnixLines,
                            MaxRepeatLines)
    /\ pc' = "discover"
    /\ base' = <<>>
    /\ lookupsLeft' = {}
    /\ pidDetails' = EmptyMap
    /\ lookupResults' = EmptyMap
    /\ processes' = <<>>
    /\ result' = <<>>
    /\ matches' = <<>>
    /\ attemptsLeft' = {}
    /\ osResults' = EmptyMap
    /\ success' = <<>>
    /\ failed' = <<>>
    /\ UNCHANGED << platform, call, thrown, watchVars, cmdVars >>

NextRepeat ==
    \/ \E c \in KillByPortCalls : Invoke(c)
    \/ Discover
    \/ \E i \in lookupsLeft, outcome \in LookupOutcomes : LookupDone(i, outcome)
    \/ KillByPortMatch
    \/ \E i \in attemptsLeft, res \in {"ok", "ESRCH", "EPERM", "taskkill_failed"} :
          AttemptDone(i, res)
    \/ KillByPortReturn
    \/ CallAgain

RepeatSpec == InitRepeat /\ [][NextRepeat]_vars

(***************************************************************************)
(* The watch command, from the point where its options are accepted and    *)
(* both streams are TTYs. fetchProcesses reads the listeners anew in every *)
(* render: what it settles with is an input of the render, drawn from what *)
(* the repository call yields over the tool's outcomes and outputs.        *)
(***************************************************************************)
MaxWatchLines == 2

\* the bytes onData stops on: Ctrl+C and Ctrl+Q
CtrlC == 3

CtrlQ == 17

\* a key that is neither
KeyQ == 113

\* the chunks stdin delivers: one key, or two keys read together
Buffers == { <<CtrlC>>, <<CtrlQ>>, <<KeyQ>>, <<KeyQ, CtrlC>> }

\* byte === 3 || byte === 17
IsCancelByte(byte) == byte = CtrlC \/ byte = CtrlQ

\* const byte = buffer[0]
FirstByte(buffer) == buffer[1]

\* the repository call fetchProcesses makes, by the options of the command
WatchCalls ==
    { ListAllCall, MakeCall("filterByPort", 80, 0), MakeCall("filterByPortRange", 80, 3000) }

\* makeKey
MakeKey(proc) ==
    proc.protocol \o ":" \o ToString(proc.port) \o ":" \o ToString(proc.pid)

RECURSIVE SettleAll(_, _)
\* pidDetails once the lookup of every pid has settled without throwing
SettleAll(pids, details) ==
    IF pids = {} THEN details
    ELSE LET p == CHOOSE q \in pids : TRUE
         IN  SettleAll(pids \ {p}, DetailsAfterLookup(details, p, "found", LookupCmd))

\* the records the platform parser yields on these lines
ParseOutput(plat, lines) ==
    IF plat = "win32" THEN GetWindowsProcesses(lines) ELSE GetUnixProcesses(lines)

\* listListeningProcesses on these lines when nothing throws
ListingOf(plat, lines) ==
    LET parsed == ParseOutput(plat, lines)
    IN  SortProcesses(EnrichAll(parsed, SettleAll(PidsOf(parsed), EmptyMap)))

\* await fetchProcesses() throws: the discovery threw or a lookup did
FetchThrows(c, plat, outcome, lines, lookupThrows) ==
    IF c.op = "filterByPortRange" /\ RangeIsEmpty(c.a, c.b) THEN FALSE
    ELSE \/ DiscoveryThrows(plat, outcome)
         \/ lookupThrows /\ ParseOutput(plat, lines) # <<>>

\* what await fetchProcesses() resolves with
FetchProcesses(c, plat, lines) ==
    IF c.op = "filterByPort" THEN FilterByPort(ListingOf(plat, lines), c.a)
    ELSE IF c.op = "filterByPortRange"
         THEN (IF RangeIsEmpty(c.a, c.b) THEN <<>>
               ELSE FilterByPortRange(ListingOf(plat, lines), c.a, c.b))
         ELSE ListingOf(plat, lines)

\* how one await fetchProcesses() settles
Fetched(c, plat, outcome, lines, lookupThrows) ==
    IF FetchThrows(c, plat, outcome, lines, lookupThrows)
    THEN [threw |-> TRUE, procs |-> <<>>]
    ELSE [threw |-> FALSE, procs |-> FetchProcesses(c, plat, lines)]

\* every way the repository call can settle, over the outcomes of the tool,
\* its outputs of at most n listener lines, and the lookups
FetchResults(c, plat, n) ==
    UNION { { Fetched(c, plat, outcome, lines, lookupThrows) :
                lines \in ToolOutputs(outcome, plat,
                                      IF plat = "win32" THEN WindowsLines ELSE UnixLines,
                                      n) } :
            outcome \in ToolOutcomes, lookupThrows \in BOOLEAN }

FetchTable ==
    [ plat \in Platforms |-> [ c \in WatchCalls |-> FetchResults(c, plat, MaxWatchLines) ] ]

\* const isNew = !seenKeys.has(key)
IsNew(seen, key) == key \notin seen

\* the entries processes.forEach prints
Entries(procs, seen) ==
    [ k \in 1..Len(procs) |->
        [ key |-> MakeKey(procs[k]), isNew |-> IsNew(seen, MakeKey(procs[k])) ] ]

\* currentKeys after the forEach
CurrentKeys(procs) == { MakeKey(procs[k]) : k \in 1..Len(procs) }

\* without seenKeys.clear()
SeenAfter_NoClear(seen, current) == seen \cup current

\* seenKeys.clear(); currentKeys.forEach((key) => seenKeys.add(key))
SeenAfter(seen, current) == current

\* seenKeys.clear() before the fetch: a failed render forgets the keys
SeenAfterFailure_Cleared(seen) == {}

\* the fetch throws before seenKeys.clear() is reached, and the catch block
\* only prints the message
SeenAfterFailure(seen) == seen

\* renderOnce without its catch block
RenderErrorEscapes_NoCatch(threw) == threw

\* the catch block of renderOnce prints the message and throws nothing
RenderErrorEscapes(threw) == FALSE

\* schedule without its pending guard
ScheduleStarts_NoPendingGuard(isStopped, isPending) == ~isStopped

\* schedule goes on to renderOnce: neither if (stopped) return nor
\* if (pending) return was taken
ScheduleStarts(isStopped, isPending) == ~isStopped /\ ~isPending

\* the timer is set whether or not the loop was stopped
TimerAfterRender_Always(isStopped, handle) == "armed"

\* if (!stopped) { timer = setTimeout(schedule, refreshInterval) }
TimerAfterRender(isStopped, handle) == IF ~isStopped THEN "armed" ELSE handle

\* if (timer) { clearTimeout(timer); timer = null }
TimerAfterStop(handle) == IF handle # "null" THEN "null" ELSE handle

\* setTimeout adds one timeout to those that are to expire
TimeoutsAfterRender(isStopped, n) == IF ~isStopped THEN n + 1 ELSE n

\* clearTimeout cancels the timeout of the handle when it has not expired yet,
\* and does nothing for a handle whose timeout has expired
TimeoutsAfterStop(handle, n) == IF handle = "armed" THEN n - 1 ELSE n

\* setInterval in place of setTimeout: the timer stays set after it expired
TimeoutsAfterFire_Interval(n) == n

\* a timeout expires once
TimeoutsAfterFire(n) == n - 1

coreIdle ==
    << pc, base, lookupsLeft, pidDetails, lookupResults, processes, matches, attemptsLeft,
       osResults, success, failed, callNo >>

InitWatch ==
    /\ platform \in Platforms
    /\ tool = "resolved"
    /\ raw = NoOutput
    /\ InitCall

\* the action's last lines: raw mode on, the listener attached, await
\* schedule(): nothing is stopped or pending, so the first render starts
WatchStart(c) ==
    /\ ~started
    /\ started' = TRUE
    /\ call' = c
    /\ rawMode' = TRUE
    /\ IF ScheduleStarts(stopped, pending)
       THEN pending' = TRUE /\ inFlight' = inFlight + 1
       ELSE UNCHANGED << pending, inFlight >>
    /\ UNCHANGED << platform, raw, tool, result, thrown, stopped, timer, timeouts, input,
                    seenKeys, shown, lastRender, coreIdle, cmdVars >>

\* onData, and stopWatching when the first byte of the chunk is Ctrl+C or
\* Ctrl+Q; once stopWatching removed the listener no chunk arrives
OnData(buffer) ==
    /\ started
    /\ rawMode
    /\ input' = buffer
    /\ IF IsCancelByte(FirstByte(buffer)) /\ ~stopped
       THEN /\ stopped' = TRUE
            /\ timer' = TimerAfterStop(timer)
            /\ timeouts' = TimeoutsAfterStop(timer, timeouts)
            /\ rawMode' = FALSE
       ELSE UNCHANGED << stopped, timer, timeouts, rawMode >>
    /\ UNCHANGED << platform, raw, tool, call, result, thrown, started, pending, inFlight,
                    seenKeys, shown, lastRender, coreIdle, cmdVars >>

\* The fetch of the render in flight settles. renderOnce prints the entries
\* and replaces seenKeys, or its catch block prints the error; then schedule
\* resumes after its await, all before the event loop runs anything else.
RenderDone(fetched) ==
    /\ inFlight > 0
    /\ inFlight' = inFlight - 1
    /\ IF fetched.threw
       THEN /\ lastRender' = "failed"
            /\ seenKeys' = SeenAfterFailure(seenKeys)
            /\ UNCHANGED << result, shown >>
       ELSE /\ lastRender' = "ok"
            /\ result' = fetched.procs
            /\ shown' = Entries(fetched.procs, seenKeys)
            /\ seenKeys' = SeenAfter(seenKeys, CurrentKeys(fetched.procs))
    /\ IF RenderErrorEscapes(fetched.threw)
       THEN /\ thrown' = "render_failed"
            /\ UNCHANGED << pending, timer, timeouts >>
       ELSE /\ pending' = FALSE
            /\ timer' = TimerAfterRender(stopped, timer)
            /\ timeouts' = TimeoutsAfterRender(stopped, timeouts)
            /\ UNCHANGED thrown
    /\ UNCHANGED << platform, raw, tool, call, started, stopped, rawMode, input, coreIdle,
                    cmdVars >>

\* a timeout expires and the event loop calls schedule; the handle in timer
\* is then the handle of an expired timeout
TimerFire ==
    /\ timeouts > 0
    /\ timeouts' = TimeoutsAfterFire(timeouts)
    /\ timer' = IF timer = "armed" THEN "fired" ELSE timer
    /\ IF ScheduleStarts(stopped, pending)
       THEN pending' = TRUE /\ inFlight' = inFlight + 1
       ELSE UNCHANGED << pending, inFlight >>
    /\ UNCHANGED << platform, raw, tool, call, result, thrown, started, stopped, rawMode,
                    input, seenKeys, shown, lastRender, coreIdle, cmdVars >>

\* the fetch of the render in flight settles, in any of the ways it can
SomeRenderDone ==
    /\ inFlight > 0
    /\ \E fetched \in FetchTable[platform][call] : RenderDone(fetched)

NextWatch ==
    \/ \E c \in WatchCalls : WatchStart(c)
    \/ \E buffer \in Buffers : OnData(buffer)
    \/ SomeRenderDone
    \/ TimerFire

WatchSpec == InitWatch /\ [][NextWatch]_vars

\* Node runs an expired timeout, and the child process of a fetch ends: the
\* timer callback and the continuation of the render are not postponed for ever
WatchLiveSpec == WatchSpec /\ WF_vars(TimerFire) /\ WF_vars(SomeRenderDone)

(***************************************************************************)
(* The kill command. It reads the listeners of the port for the preview,   *)
(* and killByPort reads them again: each read is an input of its step.     *)
(***************************************************************************)
MaxKillLines == 2

\* the largest port parsePort accepts
MaxPort == 65535

\* the <port> argument as typed
PortValues == { "80", "3000", "0", "http" }

\* parsePort throws: !Number.isFinite(port) || port <= 0 || port > 65535
ParsePortThrows(value) ==
    \/ ParseIntIsNaN(value)
    \/ ParseIntVal(value) <= 0
    \/ ParseIntVal(value) > MaxPort

ParsePort(value) == ParseIntVal(value)

\* every way filterByPort(port) can settle, for the preview and in killByPort
KillReadTable ==
    [ plat \in Platforms |->
        [ p \in CallPorts |->
            FetchResults(MakeCall("filterByPort", p, 0), plat, MaxKillLines) ] ]

\* how await inquirer.prompt can settle
PromptReplies == { "yes", "no", "rejected" }

\* the command kills whatever was answered
Proceeds_Always(confirmed) == TRUE

\* if (!confirmed) { ...; return }
Proceeds(confirmed) == confirmed

\* if (!options.force): preview and prompt
NeedsConfirmation(isForce) == ~isForce

cmdIdle ==
    << platform, raw, tool, base, lookupsLeft, pidDetails, lookupResults, processes,
       callNo, watchVars >>

InitKillCmd ==
    /\ platform \in Platforms
    /\ tool = "resolved"
    /\ raw = NoOutput
    /\ InitCall

\* the action is called: parsePort(portValue), whose error goes to the catch
\* block, then filterByPort(port) is awaited
KillCommand(portValue, isForce) ==
    /\ cpc = "init"
    /\ force' = isForce
    /\ IF ParsePortThrows(portValue)
       THEN cpc' = "end" /\ exitCode' = 1 /\ UNCHANGED call
       ELSE /\ call' = MakeCall("killByPort", ParsePort(portValue), 0)
            /\ cpc' = "read"
            /\ UNCHANGED exitCode
    /\ UNCHANGED << pc, result, thrown, killVars, previewed, answer, killInvoked, cmdIdle >>

\* invoking killByPort(port): its filterByPort(port) is awaited
InvokeKillByPort ==
    /\ killInvoked' = TRUE
    /\ cpc' = "resolve"

\* The command's filterByPort(port) settles. An error goes to the catch
\* block; no match ends the command; without --force the matches are printed
\* and the prompt is shown; with --force killByPort is called at once.
PreviewRead(fetched) ==
    /\ cpc = "read"
    /\ IF fetched.threw
       THEN /\ cpc' = "end"
            /\ exitCode' = 1
            /\ UNCHANGED << result, previewed, killInvoked >>
       ELSE /\ result' = fetched.procs
            /\ UNCHANGED exitCode
            /\ IF Len(fetched.procs) = 0
               THEN cpc' = "end" /\ UNCHANGED << previewed, killInvoked >>
               ELSE IF NeedsConfirmation(force)
                    THEN /\ previewed' = fetched.procs
                         /\ cpc' = "prompt"
                         /\ UNCHANGED killInvoked
                    ELSE InvokeKillByPort /\ UNCHANGED previewed
    /\ UNCHANGED << pc, call, thrown, killVars, force, answer, cmdIdle >>

\* await inquirer.prompt settles: the user answered, or the prompt was
\* closed and its rejection goes to the catch block
Answer(reply) ==
    /\ cpc = "prompt"
    /\ answer' = reply
    /\ IF reply = "rejected"
       THEN cpc' = "end" /\ exitCode' = 1 /\ UNCHANGED killInvoked
       ELSE IF Proceeds(reply = "yes")
            THEN InvokeKillByPort /\ UNCHANGED exitCode
            ELSE cpc' = "end" /\ UNCHANGED << killInvoked, exitCode >>
    /\ UNCHANGED << pc, call, result, thrown, killVars, force, previewed, cmdIdle >>

\* killByPort's own filterByPort(port) settles: its error rejects killByPort
\* and goes to the command's catch block; otherwise matches.map starts one
\* attempt per matched record
Resolve(fetched) ==
    /\ cpc = "resolve"
    /\ IF fetched.threw
       THEN /\ cpc' = "end"
            /\ exitCode' = 1
            /\ UNCHANGED << pc, killVars >>
       ELSE /\ matches' = fetched.procs
            /\ attemptsLeft' = 1..Len(fetched.procs)
            /\ osResults' = EmptyMap
            /\ success' = <<>>
            /\ failed' = <<>>
            /\ pc' = "terminate"
            /\ cpc' = "killing"
            /\ UNCHANGED exitCode
    /\ UNCHANGED << call, result, thrown, force, previewed, answer, killInvoked, cmdIdle >>

\* killByPort returned { success, failed }: the command prints both lists
KillCommandEnd ==
    /\ cpc = "killing"
    /\ pc = "done"
    /\ cpc' = "end"
    /\ exitCode' = IF Len(failed) > 0 THEN 1 ELSE exitCode
    /\ UNCHANGED << pc, call, result, thrown, killVars, force, previewed, answer,
                    killInvoked, cmdIdle >>

NextKillCmd ==
    \/ \E portValue \in PortValues, isForce \in BOOLEAN : KillCommand(portValue, isForce)
    \/ cpc = "read" /\ \E fetched \in KillReadTable[platform][call.a] : PreviewRead(fetched)
    \/ \E reply \in PromptReplies : Answer(reply)
    \/ cpc = "resolve" /\ \E fetched \in KillReadTable[platform][call.a] : Resolve(fetched)
    \/ \E i \in attemptsLeft, res \in {"ok", "ESRCH", "EPERM", "taskkill_failed"} :
          AttemptDone(i, res)
    \/ KillByPortReturn
    \/ KillCommandEnd

KillCmdSpec == InitKillCmd /\ [][NextKillCmd]_vars

(***************************************************************************)
(* Properties of killByPort and killByPid.                                 *)
(***************************************************************************)
Occurrences(seq, x) == Cardinality({ k \in 1..Len(seq) : seq[k] = x })

FailedIdx == [k \in 1..Len(failed) |-> failed[k].idx]

Range(seq) == { seq[k] : k \in 1..Len(seq) }

KillByPortReturned == pc = "done" /\ call.op = "killByPort"

\* the records the platform parser yields on the snapshot
SnapshotRecords ==
    IF platform = "win32" THEN GetWindowsProcesses(raw) ELSE GetUnixProcesses(raw)

\* listAll() on the snapshot, with the lookups settled as they did
ListAllOnSnapshot == SortProcesses(EnrichAll(SnapshotRecords, pidDetails))

\* C1: when killByPort(port) has returned, the matched records are exactly the
\* records of the listing whose port is the call's port, every matched record
\* is in exactly one of success and failed, exactly once, and nothing else is
\* in either list.
C1_EachMatchInExactlyOneList ==
    KillByPortReturned =>
        /\ matches = SelectSeq(processes, LAMBDA r : r.port = call.a)
        /\ \A i \in 1..Len(matches) :
              Occurrences(success, i) + Occurrences(FailedIdx, i) = 1
        /\ Range(success) \cup Range(FailedIdx) \subseteq 1..Len(matches)

C1_Witness ==
    /\ KillByPortReturned
    /\ Len(matches) >= 2
    /\ success # <<>>
    /\ failed # <<>>

\* the results of the operating system that are termination failures
IsTerminationFailure(res) == res \in {"EPERM", "taskkill_failed"}

\* C2: in killByPort a failed termination attempt is recorded in failed with
\* its error, no termination error is ever thrown out of the call, and once the
\* call has returned an attempt was made for every matched record, in whatever
\* order the attempts settled.
C2_FailuresAreIsolated ==
    call.op = "killByPort" =>
        /\ pc = "threw" => thrown \in {"lookup_failed", "command_failed"}
        /\ \A i \in DOMAIN osResults :
              IsTerminationFailure(osResults[i]) =>
                  [idx |-> i, error |-> osResults[i]] \in Range(failed)
        /\ pc = "done" => DOMAIN osResults = 1..Len(matches)

C2_Witness ==
    /\ KillByPortReturned
    /\ Len(matches) >= 2
    /\ failed # <<>>
    /\ failed[1].idx = 1
    /\ IsTerminationFailure(osResults[1])
    /\ 2 \in Range(success)

\* C3: off Windows, a signal call that fails with ESRCH is a success: killByPid
\* returns without an error and killByPort puts the record in success and not in
\* failed; any other signal error is a failure (killByPid throws it, killByPort
\* records it in failed).
C3_AbsentProcessIsSuccess ==
    platform # "win32" =>
        /\ (call.op = "killByPid" /\ pc \in {"done", "threw"}) =>
              IF osResults[1] \in {"ok", "ESRCH"}
              THEN pc = "done" /\ thrown = NoError
              ELSE pc = "threw" /\ thrown = osResults[1]
        /\ call.op = "killByPort" =>
              \A i \in DOMAIN osResults :
                  IF osResults[i] \in {"ok", "ESRCH"}
                  THEN i \in Range(success) /\ i \notin Range(FailedIdx)
                  ELSE i \in Range(FailedIdx) /\ i \notin Range(success)

C3_Witness ==
    /\ platform # "win32"
    /\ KillByPortReturned
    /\ \E i \in DOMAIN osResults : osResults[i] = "ESRCH" /\ i \in Range(success)
    /\ \E i \in DOMAIN osResults : osResults[i] = "EPERM" /\ i \in Range(FailedIdx)

(***************************************************************************)
(* Properties of the listing and its filters.                              *)
(***************************************************************************)
\* the states in which listListeningProcesses has returned to its caller
ListingReturned ==
    \/ pc = "terminate"
    \/ pc = "done" /\ call.op \in {"listListeningProcesses", "filterByPort", "killByPort"}
    \/ pc = "done" /\ call.op = "filterByPortRange" /\ call.a <= call.b

InOrder(a, b) == a.port < b.port \/ (a.port = b.port /\ a.pid <= b.pid)

\* C4: whatever the order of the parsed records and of the settling lookups,
\* the sequence listListeningProcesses returns is ascending by port and, among
\* equal ports, by pid, and is a permutation of the enriched parsed records.
C4_ListingSortedPermutation ==
    ListingReturned =>
        /\ \A k \in 1..(Len(processes) - 1) : InOrder(processes[k], processes[k + 1])
        /\ Len(processes) = Len(base)
        /\ \A r \in Range(processes) \cup Range(EnrichAll(base, pidDetails)) :
              Occurrences(processes, r) = Occurrences(EnrichAll(base, pidDetails), r)

C4_Witness ==
    /\ ListingReturned
    /\ Len(base) >= 2
    /\ \E k \in 1..(Len(base) - 1) :
          base[k].port = base[k + 1].port /\ base[k].pid > base[k + 1].pid
    /\ processes # base

\* C5: filterByPort(p) returns exactly the records of listAll() on the snapshot
\* whose port is p, in the order of the listing, hence ascending by pid.
C5_FilterByPortIsListingFiltered ==
    (pc = "done" /\ call.op = "filterByPort") =>
        /\ result = SelectSeq(ListAllOnSnapshot, LAMBDA r : r.port = call.a)
        /\ \A k \in 1..(Len(result) - 1) : result[k].pid <= result[k + 1].pid

C5_Witness ==
    /\ pc = "done"
    /\ call.op = "filterByPort"
    /\ Len(result) >= 2
    /\ Len(result) < Len(processes)
    /\ result[1].pid < result[2].pid

\* C6: filterByPortRange(min, max) with min > max returns the empty sequence
\* and no error, on any snapshot; with min <= max it returns exactly the
\* records of listAll() with min <= port <= max, both bounds included.
C6_RangeFilter ==
    call.op = "filterByPortRange" =>
        /\ call.a > call.b => pc = "done" /\ result = <<>> /\ thrown = NoError
        /\ (call.a <= call.b /\ pc = "done") =>
              result = SelectSeq(ListAllOnSnapshot,
                                 LAMBDA r : call.a <= r.port /\ r.port <= call.b)

C6_Witness ==
    /\ call.op = "filterByPortRange"
    /\ pc = "done"
    /\ call.a < call.b
    /\ \E r \in Range(result) : r.port = call.a
    /\ \E r \in Range(result) : r.port = call.b
    /\ Len(result) < Len(processes)

(***************************************************************************)
(* Properties of the records and of the parsers.                           *)
(***************************************************************************)
\* C7: every record returned by listAll, filterByPort or filterByRange has a
\* port in 1..65535 and a positive processId, whatever the tool printed.
C7_RecordsAreValid ==
    (pc = "done" /\ call.op \in {"listListeningProcesses", "filterByPort",
                                 "filterByPortRange"}) =>
        \A r \in Range(result) : r.port \in 1..65535 /\ r.pid > 0

\* the platform parser has returned
Parsed == pc = "enrich"

\* a non-empty run of decimal digits, and nothing else
AllDigits(t) == t # "" /\ \A k \in 1..Len(t) : IsDigit(Char(t, k))

\* host:port with a decimal port
IsEndpoint(t) ==
    \E k \in 1..(Len(t) - 1) : Char(t, k) = ":" /\ AllDigits(SubSeq(t, k + 1, Len(t)))

EndpointColon(t) ==
    CHOOSE k \in 1..(Len(t) - 1) : Char(t, k) = ":" /\ AllDigits(SubSeq(t, k + 1, Len(t)))

EndpointPort(t) == DecVal(SubSeq(t, EndpointColon(t) + 1, Len(t)))

EndpointAddress(t) == StripBrackets(SubSeq(t, 1, EndpointColon(t) - 1))

\* the columns of a well-formed netstat line: Proto, Local Address, Foreign
\* Address, State (TCP only), PID
WellFormedTcp(t) ==
    Len(t) = 5 /\ t[1] = "TCP" /\ IsEndpoint(t[2]) /\ IsEndpoint(t[3]) /\ AllDigits(t[5])

WellFormedUdp(t) == Len(t) = 4 /\ t[1] = "UDP" /\ IsEndpoint(t[2]) /\ AllDigits(t[4])

WellFormedWindowsLine(line) ==
    \/ Trim(line) = ""
    \/ line \in Range(WindowsBanner)
    \/ WellFormedTcp(SplitWs(Trim(line)))
    \/ WellFormedUdp(SplitWs(Trim(line)))

WellFormedWindowsOutput == \A k \in 1..Len(raw) : WellFormedWindowsLine(raw[k])

ExpectedWindowsRecord(line) ==
    LET t == SplitWs(Trim(line))
    IN  IF WellFormedTcp(t) /\ t[4] = "LISTENING"
        THEN << PortProcess(DecVal(t[5]), EndpointPort(t[2]), "TCP",
                            EndpointAddress(t[2]), NoCommand) >>
        ELSE IF WellFormedUdp(t)
        THEN << PortProcess(DecVal(t[4]), EndpointPort(t[2]), "UDP",
                            EndpointAddress(t[2]), NoCommand) >>
        ELSE <<>>

RECURSIVE ExpectedWindowsRecords(_)
ExpectedWindowsRecords(lines) ==
    IF lines = <<>> THEN <<>>
    ELSE ExpectedWindowsRecord(Head(lines)) \o ExpectedWindowsRecords(Tail(lines))

\* C8: on well-formed netstat output, in line order, a TCP line yields a record
\* exactly when its state column is LISTENING, every UDP line yields a record,
\* and the pid is the token after the state column (TCP) or after the foreign
\* address column (UDP).
C8_WindowsListenersOnly ==
    (platform = "win32" /\ Parsed /\ WellFormedWindowsOutput) =>
        base = ExpectedWindowsRecords(raw)

C8_Witness ==
    /\ platform = "win32"
    /\ Parsed
    /\ WellFormedWindowsOutput
    /\ \E k \in 1..Len(raw) :
          /\ WellFormedTcp(SplitWs(Trim(raw[k])))
          /\ SplitWs(Trim(raw[k]))[4] = "ESTABLISHED"
    /\ \E r \in Range(base) : r.protocol = "UDP" /\ r.pid = 2240 /\ r.port = 5353
    /\ Len(base) = 1

\* a token TCP or UDP in any letter case
IsProtocolToken(tok) == ToUpperCase(tok) \in {"TCP", "UDP"}

\* the tokens of the line that are an address:port pair: a host of letters,
\* digits, dots, colons, brackets or *, a colon, a decimal port
IsPairToken(tok) ==
    /\ IsEndpoint(tok)
    /\ EndpointColon(tok) > 1
    /\ \A k \in 1..(EndpointColon(tok) - 1) : IsAddrChar(Char(tok, k))

FirstPairToken(t) ==
    t[CHOOSE k \in 1..Len(t) : IsPairToken(t[k]) /\ \A j \in 1..(k - 1) : ~IsPairToken(t[j])]

FirstProtocolToken(t) ==
    t[CHOOSE k \in 1..Len(t) :
        IsProtocolToken(t[k]) /\ \A j \in 1..(k - 1) : ~IsProtocolToken(t[j])]

ExpectedUnixRecord(line) ==
    LET t == SplitWs(Trim(line))
    IN  IF /\ Trim(line) # ""
           /\ Len(t) >= 2
           /\ AllDigits(t[2])
           /\ \E k \in 1..Len(t) : IsPairToken(t[k])
        THEN << PortProcess(
                  DecVal(t[2]),
                  EndpointPort(FirstPairToken(t)),
                  IF \E k \in 1..Len(t) : IsProtocolToken(t[k])
                  THEN ToUpperCase(FirstProtocolToken(t))
                  ELSE "TCP",
                  EndpointAddress(FirstPairToken(t)),
                  <<t[1]>>) >>
        ELSE <<>>

RECURSIVE ExpectedUnixRecords(_)
ExpectedUnixRecords(lines) ==
    IF lines = <<>> THEN <<>>
    ELSE ExpectedUnixRecord(Head(lines)) \o ExpectedUnixRecords(Tail(lines))

\* C9: of lsof output, after the header line, every line with a numeric pid as
\* second token and an address:port pair yields exactly one record (that pid,
\* the pair's port and bracket-stripped address, TCP unless a TCP/UDP token is
\* there), and every other line (blank, header, no numeric pid, no pair)
\* yields none; the parse never throws.
C9_UnixOneRecordPerListenerLine ==
    (platform # "win32" /\ Parsed) => base = ExpectedUnixRecords(Tail(raw))

\* the fields that identify a listener
ListenerKey(r) == << r.protocol, r.port, r.pid, r.address >>

\* C10: no two records of the sequence listAll returns agree in
\* (protocol, port, processId, address).
C10_ListingHasNoDuplicates ==
    (pc = "done" /\ call.op = "listListeningProcesses") =>
        \A j, k \in 1..Len(result) :
            j # k => ListenerKey(result[j]) # ListenerKey(result[k])

(***************************************************************************)
(* Properties of enrichProcesses.                                          *)
(***************************************************************************)
\* the value enrichProcesses returns once every lookup has settled
Enriched == EnrichAll(base, pidDetails)

\* C11: a lookup that throws, or that finds no match, does not fail the
\* enrichment: no call fails because of a lookup, and enrichProcesses returns
\* one record per input record, in the input's order, the same but for its
\* command, with no command for a record that carried none and whose pid the
\* lookup did not find.
C11_LookupFailureKeepsRecords ==
    /\ thrown # "lookup_failed"
    /\ EnrichSettled =>
          /\ Len(Enriched) = Len(base)
          /\ \A k \in 1..Len(base) :
                /\ [Enriched[k] EXCEPT !.command = NoCommand]
                      = [base[k] EXCEPT !.command = NoCommand]
                /\ (~Truthy(base[k].command) /\ lookupResults[base[k].pid] = "none")
                      => ~Truthy(Enriched[k].command)

\* C12: a record that carries no command and whose pid the lookup resolved to
\* a command is returned with that command; a record that carries a non-empty
\* command is returned unchanged.
C12_ResolvedCommandIsReturned ==
    EnrichSettled =>
        \A k \in 1..Len(base) :
            IF Truthy(base[k].command)
            THEN Enriched[k] = base[k]
            ELSE lookupResults[base[k].pid] = "found"
                    => Enriched[k].command = <<LookupCmd>>

(***************************************************************************)
(* Properties of the discovery when the listing tool fails.                *)
(***************************************************************************)
\* the discovery call has ended: it returned its records or it threw
DiscoveryEnded == pc \notin {"idle", "discover", "killpid"} /\ call.op # "killByPid"

\* C13: off Windows, when the listing tool exits with a failure but printed
\* output, the discovery returns the records parsed from that output; when
\* the tool fails and printed nothing, the discovery call throws and does not
\* return the empty sequence.
C13_UnixToolFailure ==
    (platform # "win32" /\ tool # "resolved" /\ DiscoveryEnded
        /\ ~(call.op = "filterByPortRange" /\ call.a > call.b)) =>
        IF raw # NoOutput
        THEN thrown # "command_failed" /\ base = GetUnixProcesses(raw)
        ELSE thrown = "command_failed"

(***************************************************************************)
(* Properties of a repeated killByPort.                                    *)
(***************************************************************************)
\* no listener on the port when the second call reads the listeners
NoListenerOn(port) == \A k \in 1..Len(SnapshotRecords) : SnapshotRecords[k].port # port

\* C18: when the first killByPort(port) has left no listener on the port and
\* the listing tool works, the second killByPort(port) ends by returning, with
\* an empty success list and an empty failed list, and throws nothing.
C18_SecondKillIsEmpty ==
    (callNo = 2 /\ pc \in {"enrich", "terminate", "done", "threw"}
        /\ thrown # "command_failed" /\ NoListenerOn(call.a)) =>
        /\ pc # "threw"
        /\ thrown = NoError
        /\ success = <<>>
        /\ failed = <<>>
        /\ pc = "terminate" => attemptsLeft = {}

(***************************************************************************)
(* Properties of the watch loop.                                           *)
(***************************************************************************)
\* a renderOnce is executing
Rendering == inFlight > 0

\* the chunk holds Ctrl+C or Ctrl+Q
HasCancelByte(buffer) == \E k \in 1..Len(buffer) : buffer[k] \in {CtrlC, CtrlQ}

\* C14: once stdin has delivered Ctrl+C or Ctrl+Q, whatever the loop was doing,
\* the loop is stopped, no timeout is armed and raw mode is released; once
\* stopped the loop stays stopped, no render starts and no timeout is armed
\* any more; a render that was in flight is not cut short by the chunk, it can
\* still run to its end, and no render follows it.
C14_CancellationStops ==
    /\ [](HasCancelByte(input) => stopped)
    /\ [](stopped => (timer # "armed" /\ ~rawMode))
    /\ [](stopped /\ Rendering => ENABLED SomeRenderDone)
    /\ [][stopped => (stopped' /\ inFlight' <= inFlight /\ timer' # "armed")]_vars
    /\ [][input' # input => inFlight' = inFlight]_vars


\* a step in which a renderOnce ends in its catch block
RenderFails == inFlight' < inFlight /\ lastRender' = "failed"

\* C15: a render whose fetch throws ends in the catch block, which reports
\* the error: nothing is thrown out of schedule, the loop is not stopped by it,
\* and unless it was cancelled the next timeout is armed; from then on,
\* unless a cancellation arrives, another render begins.
C15_FailedRenderContinues ==
    /\ [][RenderFails =>
            /\ thrown' = NoError
            /\ stopped' = stopped
            /\ ~pending'
            /\ ~stopped => timer' = "armed"]_vars
    /\ (lastRender = "failed" /\ ~Rendering /\ ~stopped) ~> (Rendering \/ stopped)

C15_Witness ==
    /\ lastRender = "failed"
    /\ Rendering
    /\ timer = "fired"
    /\ ~stopped


\* a step in which a renderOnce ends after printing its entries
RenderSucceeds == inFlight' < inFlight /\ lastRender' = "ok"

\* the key of a listener: protocol:port:processId
KeyText(r) == r.protocol \o ":" \o ToString(r.port) \o ":" \o ToString(r.pid)

ShownKeys(entries) == { entries[k].key : k \in 1..Len(entries) }

\* C16: a successful render prints one entry per fetched record, in their
\* order, under the key protocol:port:processId, marked new exactly when the
\* key is not in the set remembered before the render; after the render the
\* remembered set is exactly the set of the keys printed.
C16_NewMarksAndRememberedKeys ==
    [][RenderSucceeds =>
          /\ Len(shown') = Len(result')
          /\ \A k \in 1..Len(shown') :
                /\ shown'[k].key = KeyText(result'[k])
                /\ shown'[k].isNew <=> (shown'[k].key \notin seenKeys)
          /\ seenKeys' = ShownKeys(shown')]_vars

C16_Witness ==
    /\ lastRender = "ok"
    /\ Len(shown) >= 2
    /\ \E j, k \in 1..Len(shown) : shown[j].isNew /\ ~shown[k].isNew
    /\ seenKeys = ShownKeys(shown)

\* C19: at most one renderOnce is executing, and while one is executing
\* pending is set, so that a call of schedule leaves at one of its two guards:
\* it starts no render and leaves nothing behind to start one.
C19_AtMostOneRender ==
    /\ inFlight <= 1
    /\ Rendering => (pending /\ ~ScheduleStarts(stopped, pending))

C19_Witness ==
    /\ Rendering
    /\ ~stopped
    /\ lastRender = "ok"
    /\ input = <<KeyQ>>

\* C20: the step that starts the command starts the first render, with no
\* timeout set; every later render is started by the expiry of the timeout,
\* when no render is in flight and the loop is not stopped; and the timeout is
\* armed only by the step that ends a render, and only if the loop is not
\* stopped then.
C20_RenderThenTimerThenRender ==
    /\ [][(~started /\ started') => (inFlight' = 1 /\ timer' = "null")]_vars
    /\ [][(started /\ inFlight' > inFlight) =>
            /\ timer = "armed" /\ timer' = "fired"
            /\ inFlight = 0
            /\ lastRender # "none"
            /\ ~stopped]_vars
    /\ [][(timer' = "armed" /\ timer # "armed") =>
            /\ inFlight' < inFlight
            /\ inFlight' = 0
            /\ ~stopped']_vars

C20_Witness ==
    /\ Rendering
    /\ timer = "fired"
    /\ lastRender = "ok"
    /\ seenKeys # {}

(***************************************************************************)
(* Properties of the kill command.                                         *)
(***************************************************************************)
\* terminateProcess has been called for some record
TerminationAttempted == DOMAIN osResults # {}

\* C17: a termination is attempted only inside an invoked killByPort. Without
\* --force killByPort is invoked only after the matches were printed and the
\* user answered yes; after a no, and when no process listens on the port, it
\* is never invoked. With --force nothing is printed or asked, and killByPort
\* is invoked as soon as the matches are known.
C17_KillIsConfirmedOrForced ==
    /\ TerminationAttempted => killInvoked
    /\ (killInvoked /\ ~force) =>
          (previewed # <<>> /\ previewed = result /\ answer = "yes")
    /\ answer \in {"no", "rejected"} => (~killInvoked /\ cpc = "end")
    /\ (cpc \notin {"init", "read"} /\ result = <<>>) => ~killInvoked
    /\ force => (answer = "none" /\ cpc # "prompt" /\ previewed = <<>>)
    /\ (force /\ result # <<>>) => killInvoked

C17_Witness ==
    /\ ~force
    /\ answer = "yes"
    /\ cpc = "end"
    /\ Len(previewed) >= 2
    /\ success # <<>>

(***************************************************************************)
(* Properties of the lookups of enrichProcesses.                           *)
(***************************************************************************)
\* the lookups enrichProcesses has started for the pid
LookupsStarted(pid) ==
    Cardinality({ i \in 1..Len(Pids(base)) : Pids(base)[i] = pid })

\* those of them that have settled
LookupsSettled(pid) ==
    Cardinality({ i \in (1..Len(Pids(base))) \ lookupsLeft : Pids(base)[i] = pid })

\* the lookups of enrichProcesses have been started
LookupsRunning == pc = "enrich" \/ thrown = "lookup_failed"

\* C21: enrichProcesses starts exactly one lookup for every distinct pid of
\* its input, however many records carry the pid, and none for a pid that is
\* not in the input; no lookup settles twice, and when all have settled
\* exactly one has settled for every distinct pid.
C21_OneLookupPerDistinctPid ==
    /\ LookupsRunning =>
          /\ \A pid \in PidsOf(base) : LookupsStarted(pid) = 1
          /\ \A i \in 1..Len(Pids(base)) : Pids(base)[i] \in PidsOf(base)
          /\ \A pid \in PidsOf(base) : LookupsSettled(pid) <= 1
          /\ DOMAIN lookupResults \subseteq PidsOf(base)
    /\ EnrichSettled =>
          /\ \A pid \in PidsOf(base) : LookupsSettled(pid) = 1
          /\ DOMAIN lookupResults = PidsOf(base)

C21_Witness ==
    /\ EnrichSettled
    /\ Cardinality(PidsOf(base)) >= 2
    /\ \E j, k \in 1..Len(base) : j # k /\ base[j].pid = base[k].pid
    /\ DOMAIN lookupResults = PidsOf(base)

(***************************************************************************)
(* Properties of the timeouts of the watch loop.                           *)
(***************************************************************************)
\* a step in which a timeout expires: one timeout less, and not by the
\* clearTimeout of stopWatching
TimeoutExpires == timeouts' < timeouts /\ stopped' = stopped

\* C22: at most one timeout is set and still to expire, none is while a
\* render is in flight, and the one that is set is the one whose handle is in
\* timer; so no timeout expires while a render is in flight.
C22_AtMostOneTimeout ==
    /\ [](timeouts <= 1)
    /\ [](Rendering => timeouts = 0)
    /\ []((timeouts = 1) <=> (timer = "armed"))
    /\ [][TimeoutExpires => ~Rendering]_vars

C22_Witness ==
    /\ timeouts = 1
    /\ ~Rendering
    /\ lastRender = "failed"
    /\ seenKeys # {}
    /\ input = <<KeyQ, CtrlC>>

(***************************************************************************)
(* Properties of the remembered keys across failed renders.                *)
(***************************************************************************)
\* C23: a render that fails changes neither the remembered keys nor what was
\* printed last, so the remembered keys are always the keys the last
\* successful render printed, and a successful render marks an entry new
\* exactly when that render did not print its key, failed renders in between
\* or not.
C23_FailedRenderKeepsKeys ==
    /\ [](seenKeys = ShownKeys(shown))
    /\ [][RenderFails => (seenKeys' = seenKeys /\ shown' = shown)]_vars
    /\ [][RenderSucceeds =>
            \A k \in 1..Len(shown') :
                shown'[k].isNew <=> (shown'[k].key \notin ShownKeys(shown))]_vars

C23_Witness ==
    /\ lastRender = "failed"
    /\ ~Rendering
    /\ Cardinality(seenKeys) >= 2
    /\ seenKeys = ShownKeys(shown)
    /\ ~stopped

(***************************************************************************)
(* Properties of the kill command's two reads of the listeners.            *)
(***************************************************************************)
\* the pids terminateProcess has been called for
AttemptedPids == { matches[i].pid : i \in DOMAIN osResults }

\* C24: without --force, every process for which a termination was attempted
\* is a process of a record that was printed before the prompt, whatever
\* killByPort's own read of the listeners returned.
C24_TargetsWerePreviewed ==
    (~force /\ killInvoked) => AttemptedPids \subseteq PidsOf(previewed)

====
